---- MODULE Spec2Model ----
(***************************************************************************)
(* Model of scripts/generate_test_pdf.py: the command-line entry point,    *)
(* the content construction of generate_test_pdf and the hand-over to the  *)
(* rendering engine (reportlab), run as a process against a file system    *)
(* that persists from one run of the script to the next.                   *)
(*                                                                         *)
(* Strings that are paths are records [abs, segs]: whether the string      *)
(* starts with "/" and its "/"-separated segments as written ("." and ".." *)
(* included).  A printed line is a record [text, path, detail]: the fixed  *)
(* part of the f-string and the value formatted into it.  The text of a    *)
(* Paragraph is the sequence of the parts of its (f-)string.  Spacer       *)
(* heights are in hundredths of an inch.                                   *)
(***************************************************************************)
EXTENDS Integers, Sequences, FiniteSets, TLC

VARIABLES
    installed,        \* environment: reportlab can be imported
    dirs,             \* file system: the existing directories (absolute segments)
    files,            \* file system: existing files, absolute segments -> artifact
    pc,               \* position of the running script
    cwd,              \* working directory of the process
    argv,             \* sys.argv: << script >> or << script, path >>
    output_path,      \* module-level output_path (line 200 or 205)
    gen_output_path,  \* parameter output_path of generate_test_pdf
    doc,              \* the SimpleDocTemplate (its filename)
    story,            \* the list of flowables
    exc,              \* the exception raised in this run, NoExc if none
    stdout,           \* lines printed by print
    stderr,           \* lines the interpreter writes for an uncaught exception
    exit_code,        \* exit status of this run, -1 while it runs
    buildCalls,       \* calls of doc.build in this run
    handed,           \* what doc.build was called with in this run
    files0,           \* the files when this run was launched
    run,              \* number of runs launched so far
    prev              \* exit status, exception and build call of the run before

vars == << installed, dirs, files, pc, cwd, argv, output_path, gen_output_path,
           doc, story, exc, stdout, stderr, exit_code, buildCalls, handed,
           files0, run, prev >>

\* Number of times the script is run against the same file system.
MaxRuns == 2

---------------------------------------------------------------------------
(* Path strings and pathlib *)

Str(isAbs, segs) == [abs |-> isAbs, segs |-> segs]

NoPath == Str(FALSE, << >>)

\* pathlib.Path(s): "." and empty segments are dropped, ".." is kept.
Path(s) == [abs |-> s.abs,
            segs |-> SelectSeq(s.segs, LAMBDA x : x # "." /\ x # "")]

\* Path.parent: purely lexical, the anchor and "." are their own parents.
Parent(p) ==
    IF p.segs = << >> THEN p
    ELSE [p EXCEPT !.segs = SubSeq(p.segs, 1, Len(p.segs) - 1)]

\* Path / name
Div(p, name) == [p EXCEPT !.segs = Append(p.segs, name)]

\* str(Path): the empty relative path prints as "."
PathStr(p) == IF ~p.abs /\ p.segs = << >> THEN Str(FALSE, << "." >>) ELSE p

\* A module-level output_path is a str (argv[1]) or a Path (the default).
AsStr(s) == [isPath |-> FALSE, val |-> s]
AsPath(p) == [isPath |-> TRUE, val |-> p]

\* str(output_path) and f"{output_path}": a str is returned as it is.
str(v) == IF v.isPath THEN PathStr(v.val) ELSE v.val

\* __file__ of the __main__ module: the script argument made absolute by
\* joining it to the working directory, not normalised.
File(dir, script) ==
    IF script.abs THEN script ELSE Str(TRUE, dir.segs \o script.segs)

\* The file the operating system opens for a path string: relative strings
\* start at the working directory, "." stays, ".." goes up.
RECURSIVE Walk(_, _)
Walk(at, segs) ==
    IF segs = << >> THEN at
    ELSE LET s == Head(segs) IN
         Walk(IF s = "." \/ s = "" THEN at
              ELSE IF s = ".." THEN (IF at = << >> THEN at
                                     ELSE SubSeq(at, 1, Len(at) - 1))
              ELSE Append(at, s),
              Tail(segs))

Resolve(dir, s) == Walk(IF s.abs THEN << >> ELSE dir.segs, s.segs)

DirOf(absSegs) ==
    IF absSegs = << >> THEN << >> ELSE SubSeq(absSegs, 1, Len(absSegs) - 1)

---------------------------------------------------------------------------
(* The environment the script is launched in *)

ScriptName == "generate_test_pdf.py"

\* (working directory, script argument) pairs that start the same script
Launches ==
    { [cwd |-> Str(TRUE, << "proj", "docs" >>),
       script |-> Str(FALSE, << ".", "..", "scripts", ScriptName >>)],
      [cwd |-> Str(TRUE, << "tmp" >>),
       script |-> Str(TRUE, << "proj", "scripts", ScriptName >>)] }

\* values of argv[1]
PathArgs ==
    { Str(TRUE, << "tmp", "out.pdf" >>),
      Str(FALSE, << ".", "out.pdf" >>),
      Str(TRUE, << "tmp", "missing", "out.pdf" >>),
      Str(TRUE, << "ro", "out.pdf" >>) }

BaseDirs ==
    { << >>, << "proj" >>, << "proj", "scripts" >>, << "proj", "docs" >>,
      << "proj", "tests" >>, << "tmp" >>, << "ro" >> }

FixturesDir == << "proj", "tests", "fixtures" >>

ReadOnlyDirs == { << "ro" >> }

NoFiles == [p \in {} |-> 0]

---------------------------------------------------------------------------
(* Styles and flowables *)

title_style ==
    [name |-> "CustomTitle", parent |-> "Heading1", fontSize |-> 24,
     textColor |-> "#000000", spaceAfter |-> 30, alignment |-> "TA_CENTER"]

heading_style ==
    [name |-> "CustomHeading", parent |-> "Heading2", fontSize |-> 16,
     textColor |-> "#000000", spaceAfter |-> 12, spaceBefore |-> 12]

body_style == [name |-> "BodyText"]

Paragraph(text, style) ==
    [kind |-> "Paragraph", text |-> text, style |-> style.name, height |-> 0]

Spacer(width, height) ==
    [kind |-> "Spacer", text |-> << >>, style |-> "", height |-> height]

PageBreak ==
    [kind |-> "PageBreak", text |-> << >>, style |-> "", height |-> 0]

Bullet == "\\u2022 "

features ==
    << "Command-line interface for easy integration",
       "Dry-run mode to preview PDF structure",
       "Verbose output for detailed processing information",
       "Automatic directory creation for output files",
       "Robust error handling with clear messages" >>

quality_items ==
    << "Zero compiler warnings",
       "Zero clippy warnings",
       "All tests must pass",
       "Code coverage above 80%",
       "Comprehensive documentation",
       "Clean git history" >>

\* As BulletLoop, with the loop skipping the first entry.
RECURSIVE BulletLoopFromSecond(_)
BulletLoopFromSecond(items) ==
    IF Len(items) < 2 THEN << >>
    ELSE << Paragraph(<< Bullet, items[2] >>, body_style), Spacer(1, 5) >>
         \o BulletLoopFromSecond(Tail(items))

\* The two for loops: a bulleted Paragraph and a Spacer per entry, in order.
RECURSIVE BulletLoop(_)
BulletLoop(items) ==
    IF items = << >> THEN << >>
    ELSE << Paragraph(<< Bullet, Head(items) >>, body_style), Spacer(1, 5) >>
         \o BulletLoop(Tail(items))

TitleElems ==
    << Paragraph(<< "Sample Document for Testing" >>, title_style),
       Spacer(1, 20) >>

MetadataElems ==
    << Paragraph(<< "<i>A test PDF for pdf2md converter</i>" >>, body_style),
       Spacer(1, 30) >>

IntroductionElems ==
    << Paragraph(<< "Introduction" >>, heading_style),
       Paragraph(<< "This is a sample PDF document created for testing the pdf2md converter. It contains structured text with multiple sections, paragraphs, and formatting to validate the conversion process." >>, body_style),
       Spacer(1, 20),
       Paragraph(<< "The document includes various elements commonly found in PDF files, such as headings, body text, lists, and multiple paragraphs. This helps ensure that the converter can handle real-world PDF documents effectively." >>, body_style),
       Spacer(1, 30) >>

FeaturesElems ==
    << Paragraph(<< "Features of pdf2md" >>, heading_style),
       Paragraph(<< "The pdf2md tool provides several key features:" >>, body_style),
       Spacer(1, 10) >>
    \o BulletLoop(features)
    \o << Spacer(1, 30) >>

\* As UseCasesElems, with the section placed under a Body paragraph instead
\* of a heading.
UseCasesNoHeading ==
    << Paragraph(<< "Use Cases" >>, body_style) >> \o
    << Paragraph(<< "The pdf2md converter is useful in several scenarios:" >>, body_style),
       Spacer(1, 30) >>

UseCasesElems ==
    << Paragraph(<< "Use Cases" >>, heading_style),
       Paragraph(<< "The pdf2md converter is useful in several scenarios:" >>, body_style),
       Spacer(1, 20),
       Paragraph(<< "<b>Documentation:</b> Convert PDF manuals to Markdown for documentation websites and wikis. This makes content more accessible and easier to maintain." >>, body_style),
       Spacer(1, 10),
       Paragraph(<< "<b>Content Migration:</b> Move PDF content to Markdown-based content management systems or static site generators like Jekyll, Hugo, or MkDocs." >>, body_style),
       Spacer(1, 10),
       Paragraph(<< "<b>Automation:</b> Integrate PDF processing into CI/CD pipelines for automated documentation workflows and content publishing." >>, body_style),
       Spacer(1, 30) >>

\* As PageBreakElems, with the page break appended twice.
TwoPageBreaks == << PageBreak, PageBreak >>

PageBreakElems == << PageBreak >>

TechnicalElems ==
    << Paragraph(<< "Technical Details" >>, heading_style),
       Paragraph(<< "The pdf2md tool is built with Rust 2024 edition, ensuring memory safety, performance, and reliability. It follows Test-Driven Development practices with comprehensive test coverage." >>, body_style),
       Spacer(1, 20),
       Paragraph(<< "The architecture is modular, with separate components for CLI parsing, PDF processing, and Markdown generation. This design makes the codebase maintainable and extensible." >>, body_style),
       Spacer(1, 30) >>

QualityElems ==
    << Paragraph(<< "Quality Standards" >>, heading_style),
       Paragraph(<< "The project adheres to strict quality standards:" >>, body_style),
       Spacer(1, 10) >>
    \o BulletLoop(quality_items)
    \o << Spacer(1, 30) >>

ConclusionElems ==
    << Paragraph(<< "Conclusion" >>, heading_style),
       Paragraph(<< "This sample document demonstrates the type of content that pdf2md can process. The converter extracts text from PDFs and formats it as Markdown, making it suitable for modern documentation workflows." >>, body_style),
       Spacer(1, 20),
       Paragraph(<< "For more information, visit the project repository or consult the documentation in the docs/ directory. The tool is open source and contributions are welcome." >>, body_style) >>

---------------------------------------------------------------------------
(* Exceptions, printed lines, artifacts *)

NoExc == [kind |-> "", text |-> ""]

ModuleNotFound ==
    [kind |-> "ModuleNotFoundError", text |-> "No module named 'reportlab'"]

\* what a call into the engine can raise while the document is constructed
\* or laid out: a part of the engine that cannot be imported, or an error of
\* the engine itself
EngineErrors ==
    { [kind |-> "ImportError", text |-> "cannot import name '_rl_accel'"],
      [kind |-> "ValueError", text |-> "engine error"] }

FileNotFound ==
    [kind |-> "FileNotFoundError", text |-> "[Errno 2] No such file or directory"]

PermissionDenied ==
    [kind |-> "PermissionError", text |-> "[Errno 13] Permission denied"]

\* As IsImportError, had the clause been except (ImportError, OSError).
IsImportOrOSError(e) ==
    e.kind \in { "ImportError", "ModuleNotFoundError", "FileNotFoundError",
                 "PermissionError" }

\* except ImportError: the class and its subclass ModuleNotFoundError
IsImportError(e) == e.kind \in { "ImportError", "ModuleNotFoundError" }

\* except Exception: every exception class of the model derives from it
IsException(e) == e # NoExc

Line(text, path, detail) == [text |-> text, path |-> path, detail |-> detail]

NoHanded ==
    [story |-> << >>, filename |-> NoPath, target |-> << >>, at |-> 0,
     ok |-> FALSE]

\* Pages of the laid-out story: a PageBreak that content follows starts a
\* new page.
RECURSIVE ForcedBreaks(_)
ForcedBreaks(s) ==
    IF Len(s) < 2 THEN 0
    ELSE (IF Head(s).kind = "PageBreak" THEN 1 ELSE 0) + ForcedBreaks(Tail(s))

\* The file the engine writes: minPages are the pages the forced breaks alone
\* give, the layout may need more.
Artifact(s, complete) ==
    [story |-> s, minPages |-> 1 + ForcedBreaks(s), run |-> run,
     complete |-> complete]

\* As Writable, had the engine created missing parent directories.
CreatesParents(target) ==
    /\ DirOf(target) \notin ReadOnlyDirs
    /\ target \notin dirs

\* As Writable, had the engine refused to overwrite an existing file.
NoOverwrite(target) ==
    /\ DirOf(target) \in dirs
    /\ DirOf(target) \notin ReadOnlyDirs
    /\ target \notin dirs
    /\ target \notin DOMAIN files

\* The engine can create or overwrite the file: its directory exists and
\* can be written, and the name is not a directory.
Writable(target) ==
    /\ DirOf(target) \in dirs
    /\ DirOf(target) \notin ReadOnlyDirs
    /\ target \notin dirs

---------------------------------------------------------------------------
(* The script *)

Init ==
    /\ installed \in BOOLEAN
    /\ dirs \in { BaseDirs, BaseDirs \cup { FixturesDir } }
    /\ files = NoFiles
    /\ pc = "idle"
    /\ cwd = Str(TRUE, << >>)
    /\ argv = << >>
    /\ output_path = AsStr(NoPath)
    /\ gen_output_path = NoPath
    /\ doc = [filename |-> NoPath]
    /\ story = << >>
    /\ exc = NoExc
    /\ stdout = << >>
    /\ stderr = << >>
    /\ exit_code = -1
    /\ buildCalls = 0
    /\ handed = NoHanded
    /\ files0 = NoFiles
    /\ run = 0
    /\ prev = [exit |-> -1, exc |-> NoExc, handed |-> NoHanded]

\* The process ends with the given status.
Exit(code) ==
    /\ pc' = "exited"
    /\ exit_code' = code
    /\ UNCHANGED prev

\* python3 <script> [path], in a fresh process
Launch ==
    /\ pc \in { "idle", "exited" }
    /\ run < MaxRuns
    /\ \E l \in Launches :
         /\ cwd' = l.cwd
         /\ \/ argv' = << l.script >>
            \/ \E a \in PathArgs : argv' = << l.script, a >>
    /\ run' = run + 1
    /\ pc' = "import"
    /\ output_path' = AsStr(NoPath)
    /\ gen_output_path' = NoPath
    /\ doc' = [filename |-> NoPath]
    /\ exc' = NoExc
    /\ stdout' = << >>
    /\ stderr' = << >>
    /\ exit_code' = -1
    /\ buildCalls' = 0
    /\ handed' = NoHanded
    /\ files0' = files
    /\ story' = << >>
    /\ prev' = [exit |-> exit_code, exc |-> exc, handed |-> handed]
    /\ UNCHANGED << installed, dirs, files >>

\* lines 7-13: the imports, outside any try
Import ==
    /\ pc = "import"
    /\ \/ /\ installed
          /\ pc' = "main"
          /\ UNCHANGED << exc, stderr, exit_code, prev >>
       \/ /\ ~installed
          /\ exc' = ModuleNotFound
          /\ stderr' = Append(stderr,
                 Line("ModuleNotFoundError: ", NoPath, ModuleNotFound.text))
          /\ Exit(1)
    /\ UNCHANGED << installed, dirs, files, cwd, argv, output_path,
                    gen_output_path, doc, story, stdout, buildCalls, handed,
                    files0, run >>

\* As DefaultPath, with the script's directory taken for the project root.
DefaultPathInScriptDir(file) ==
    LET script_dir == Parent(Path(file))
    IN  Div(Div(Div(script_dir, "tests"), "fixtures"), "sample.pdf")

\* lines 203-205: the default output path
DefaultPath(file) ==
    LET script_dir == Parent(Path(file))
        project_root == Parent(script_dir)
    IN  Div(Div(Div(project_root, "tests"), "fixtures"), "sample.pdf")

\* lines 199-205
ChoosePath(args, dir) ==
    IF Len(args) > 1 THEN AsStr(args[2])
    ELSE AsPath(DefaultPath(File(dir, args[1])))

\* lines 199-207
Main ==
    /\ pc = "main"
    /\ output_path' = ChoosePath(argv, cwd)
    /\ stdout' = Append(stdout,
           Line("Generating test PDF at: ", str(output_path'), ""))
    /\ pc' = "call"
    /\ UNCHANGED << installed, dirs, files, cwd, argv, gen_output_path, doc,
                    story, exc, stderr, exit_code, buildCalls, handed, files0,
                    run, prev >>

\* line 210: generate_test_pdf(str(output_path))
Call ==
    /\ pc = "call"
    /\ gen_output_path' = str(output_path)
    /\ pc' = "doc"
    /\ UNCHANGED << installed, dirs, files, cwd, argv, output_path, doc, story,
                    exc, stdout, stderr, exit_code, buildCalls, handed, files0,
                    run, prev >>

\* lines 20-27: the document template; no file is opened here
CreateDoc ==
    /\ pc = "doc"
    /\ doc' = [filename |-> gen_output_path]
    /\ pc' = "styles"
    /\ UNCHANGED << installed, dirs, files, cwd, argv, output_path,
                    gen_output_path, story, exc, stdout, stderr, exit_code,
                    buildCalls, handed, files0, run, prev >>

\* lines 30-53: the empty story and the styles
Styles ==
    /\ pc = "styles"
    /\ story' = << >>
    /\ pc' = "title"
    /\ UNCHANGED << installed, dirs, files, cwd, argv, output_path,
                    gen_output_path, doc, exc, stdout, stderr, exit_code,
                    buildCalls, handed, files0, run, prev >>

\* story.append of each element of elems in order, then on to the next step
AppendAll(at, elems, next) ==
    /\ pc = at
    /\ story' = story \o elems
    /\ pc' = next
    /\ UNCHANGED << installed, dirs, files, cwd, argv, output_path,
                    gen_output_path, doc, exc, stdout, stderr, exit_code,
                    buildCalls, handed, files0, run, prev >>

AddTitle == AppendAll("title", TitleElems, "metadata")
AddMetadata == AppendAll("metadata", MetadataElems, "introduction")
AddIntroduction == AppendAll("introduction", IntroductionElems, "features")
AddFeatures == AppendAll("features", FeaturesElems, "use_cases")
AddUseCases == AppendAll("use_cases", UseCasesElems, "page_break")
AddPageBreak == AppendAll("page_break", PageBreakElems, "technical")
AddTechnical == AppendAll("technical", TechnicalElems, "quality")
AddQuality == AppendAll("quality", QualityElems, "conclusion")
AddConclusion == AppendAll("conclusion", ConclusionElems, "build")

ConstructionSteps ==
    { "doc", "styles", "title", "metadata", "introduction", "features",
      "use_cases", "page_break", "technical", "quality", "conclusion" }

\* a call into the engine raises while the document is constructed
RaiseInConstruction ==
    /\ pc \in ConstructionSteps
    /\ \E e \in EngineErrors : exc' = e
    /\ pc' = "except"
    /\ UNCHANGED << installed, dirs, files, cwd, argv, output_path,
                    gen_output_path, doc, story, stdout, stderr, exit_code,
                    buildCalls, handed, files0, run, prev >>

\* line 193: doc.build(story).  The engine is handed the list itself and may
\* take the flowables off it while it lays them out.
Build ==
    /\ pc = "build"
    /\ buildCalls' = buildCalls + 1
    /\ story' \in { story, << >> }
    /\ LET target == Resolve(cwd, doc.filename)
           call(ok) == [story |-> story, filename |-> doc.filename,
                        target |-> target, at |-> Len(stdout), ok |-> ok]
       IN  \/ /\ Writable(target)
              /\ files' = (target :> Artifact(story, TRUE)) @@ files
              /\ handed' = call(TRUE)
              /\ pc' = "report"
              /\ exc' = exc
           \/ /\ ~Writable(target)
              /\ exc' = IF DirOf(target) \in dirs THEN PermissionDenied
                        ELSE FileNotFound
              /\ files' = files
              /\ handed' = call(FALSE)
              /\ pc' = "except"
           \/ /\ \E e \in EngineErrors : exc' = e
              /\ \/ files' = files
                 \/ /\ Writable(target)
                    /\ files' = (target :> Artifact(story, FALSE)) @@ files
              /\ handed' = call(FALSE)
              /\ pc' = "except"
    /\ UNCHANGED << installed, dirs, cwd, argv, output_path, gen_output_path,
                    doc, stdout, stderr, exit_code, files0, run, prev >>

\* As Report, had the path been printed as a Path instead of as given.
ReportNormalised ==
    /\ pc = "report"
    /\ stdout' = Append(stdout,
           Line("Generated test PDF: ", PathStr(Path(gen_output_path)), ""))
    /\ pc' = "success"
    /\ UNCHANGED << installed, dirs, files, cwd, argv, output_path,
                    gen_output_path, doc, story, exc, stderr, exit_code,
                    buildCalls, handed, files0, run, prev >>

\* line 194
Report ==
    /\ pc = "report"
    /\ stdout' = Append(stdout, Line("Generated test PDF: ", gen_output_path, ""))
    /\ pc' = "success"
    /\ UNCHANGED << installed, dirs, files, cwd, argv, output_path,
                    gen_output_path, doc, story, exc, stderr, exit_code,
                    buildCalls, handed, files0, run, prev >>

\* line 211, and the end of the script
Success ==
    /\ pc = "success"
    /\ stdout' = Append(stdout, Line("Success!", NoPath, ""))
    /\ exc' = exc
    /\ Exit(0)
    /\ UNCHANGED << installed, dirs, files, cwd, argv, output_path,
                    gen_output_path, doc, story, stderr, buildCalls, handed,
                    files0, run >>

\* lines 212-215
HandleImportError ==
    /\ pc = "except"
    /\ IsImportError(exc)
    /\ stdout' = stdout \o << Line("Error: reportlab not installed", NoPath, ""),
                              Line("Install with: pip install reportlab", NoPath, "") >>
    /\ exc' = exc
    /\ Exit(1)
    /\ UNCHANGED << installed, dirs, files, cwd, argv, output_path,
                    gen_output_path, doc, story, stderr, buildCalls, handed,
                    files0, run >>

\* As HandleException, had the handler called the build step again.
RetryBuild ==
    /\ pc = "except"
    /\ ~IsImportError(exc)
    /\ IsException(exc)
    /\ stdout' = Append(stdout, Line("Error generating PDF: ", NoPath, exc.text))
    /\ pc' = IF buildCalls < 2 THEN "build" ELSE "exited"
    /\ exit_code' = IF buildCalls < 2 THEN exit_code ELSE 1
    /\ UNCHANGED << installed, dirs, files, cwd, argv, output_path,
                    gen_output_path, doc, story, exc, stderr, buildCalls,
                    handed, files0, run, prev >>

\* lines 216-218
HandleException ==
    /\ pc = "except"
    /\ ~IsImportError(exc)
    /\ IsException(exc)
    /\ stdout' = Append(stdout, Line("Error generating PDF: ", NoPath, exc.text))
    /\ exc' = exc
    /\ Exit(1)
    /\ UNCHANGED << installed, dirs, files, cwd, argv, output_path,
                    gen_output_path, doc, story, stderr, buildCalls, handed,
                    files0, run >>

Next ==
    \/ Launch
    \/ Import
    \/ Main
    \/ Call
    \/ CreateDoc
    \/ Styles
    \/ AddTitle
    \/ AddMetadata
    \/ AddIntroduction
    \/ AddFeatures
    \/ AddUseCases
    \/ AddPageBreak
    \/ AddTechnical
    \/ AddQuality
    \/ AddConclusion
    \/ RaiseInConstruction
    \/ Build
    \/ Report
    \/ Success
    \/ HandleImportError
    \/ HandleException

Spec == Init /\ [][Next]_vars

---------------------------------------------------------------------------
(* Vocabulary of the properties *)

Guidance == "Install with: pip install reportlab"

\* the file this run is to write
Target == Resolve(cwd, gen_output_path)

\* the output path of this run as a string: argv[1] if given
GivenPath == IF Len(argv) > 1 THEN argv[2] ELSE gen_output_path

Printed(l) == \E i \in 1 .. Len(stdout) : stdout[i] = l

\* a valid writable output path: its directory exists and can be written
ValidWritable(t) ==
    /\ DirOf(t) \in dirs
    /\ DirOf(t) \notin ReadOnlyDirs
    /\ t \notin dirs

\* the exception is a failure inside the engine, not one of the path
EngineFailed(e) == e \in EngineErrors

Finished == pc = "exited" /\ installed

IsHeading(f) == f.kind = "Paragraph" /\ f.style = "CustomHeading"
IsTitle(f) == f.kind = "Paragraph" /\ f.style = "CustomTitle"
IsListItem(f) ==
    f.kind = "Paragraph" /\ f.style = "BodyText" /\ f.text[1] = Bullet
IsBody(f) ==
    f.kind = "Paragraph" /\ f.style = "BodyText" /\ f.text[1] # Bullet
IsSpacer(f) == f.kind = "Spacer"
IsPageBreak(f) == f.kind = "PageBreak"

HeadingAt(s, title) ==
    CHOOSE i \in 1 .. Len(s) : IsHeading(s[i]) /\ s[i].text = << title >>

\* the elements from the heading with this title up to the next heading or
\* page break
Section(s, title) ==
    LET h == HeadingAt(s, title)
        ends == { j \in (h + 1) .. Len(s) : IsHeading(s[j]) \/ IsPageBreak(s[j]) }
        e == IF ends = {} THEN Len(s) + 1
             ELSE CHOOSE j \in ends : \A k \in ends : j <= k
    IN  SubSeq(s, h, e - 1)

\* sec is: what lead says of its first elements, then a List Item and a small
\* Spacer per entry of items, then one larger Spacer
BulletedSection(sec, lead, items) ==
    LET n == Len(items) IN
    /\ Len(sec) = lead + 2 * n + 1
    /\ IsHeading(sec[1])
    /\ IsBody(sec[2])
    /\ \A k \in 1 .. n :
         /\ IsListItem(sec[lead + 2 * k - 1])
         /\ sec[lead + 2 * k - 1].text = << Bullet, items[k] >>
         /\ IsSpacer(sec[lead + 2 * k])
         /\ sec[lead + 2 * k].height < sec[Len(sec)].height
    /\ IsSpacer(sec[Len(sec)])

Headings(s) == SelectSeq(s, IsHeading)

HeadingTitles(s) == [i \in 1 .. Len(Headings(s)) |-> Headings(s)[i].text[1]]

AllElems ==
    TitleElems \o MetadataElems \o IntroductionElems \o FeaturesElems
    \o UseCasesElems \o PageBreakElems \o TechnicalElems \o QualityElems
    \o ConclusionElems

---------------------------------------------------------------------------
(* Properties *)

\* C1: when reportlab is absent the run exits with status 1, prints the
\* installation guidance "Install with: pip install reportlab" and writes no
\* file.
C1_MissingDependencyGuidance ==
    (pc = "exited" /\ ~installed) =>
        /\ exit_code = 1
        /\ \E i \in 1 .. Len(stdout \o stderr) :
             (stdout \o stderr)[i].text = Guidance
        /\ files = files0

\* C2: every exception other than a missing dependency raised during style
\* construction, content construction or the build step is printed as
\* "Error generating PDF: <its text>" and the process exits with status 1.
C2_GenericFailureReported ==
    (Finished /\ exc # NoExc
       /\ exc.kind \notin { "ImportError", "ModuleNotFoundError" }) =>
        /\ exit_code = 1
        /\ Printed(Line("Error generating PDF: ", NoPath, exc.text))

C2_Witness ==
    /\ Finished
    /\ exc = PermissionDenied
    /\ buildCalls = 1

\* C3: for a valid writable output path p (and an engine that does not fail),
\* the build step writes the file at p, "Generated test PDF: p" is printed
\* after the build step has completed, and the process exits with status 0.
C3_WritablePathSucceeds ==
    (Finished /\ ValidWritable(Target) /\ ~EngineFailed(exc)) =>
        /\ exit_code = 0
        /\ handed.ok
        /\ handed.target = Target
        /\ Target \in DOMAIN files
        /\ files[Target] = Artifact(handed.story, TRUE)
        /\ \E i \in (handed.at + 1) .. Len(stdout) :
             stdout[i] = Line("Generated test PDF: ", GivenPath, "")

C3_Witness ==
    /\ Finished
    /\ exit_code = 0
    /\ Len(argv) > 1
    /\ argv[2] = Str(FALSE, << ".", "out.pdf" >>)
    /\ Target \in DOMAIN files

C5_MissingParentFails ==
    (installed /\ pc \notin { "idle", "import", "main", "call" }
       /\ DirOf(Target) \notin dirs) =>
        /\ files = files0
        /\ Target \notin DOMAIN files
        /\ (pc = "exited" /\ ~EngineFailed(exc)) =>
             /\ exit_code = 1
             /\ exc = FileNotFound
             /\ Printed(Line("Error generating PDF: ", NoPath, exc.text))

C5_Witness ==
    /\ Finished
    /\ Len(argv) = 1
    /\ FixturesDir \notin dirs
    /\ buildCalls = 1
    /\ exc = FileNotFound

\* C6: two runs in a row at the same writable path both exit 0, the second
\* hands the build step the same content sequence as the first, and the
\* second artifact replaces the first.
C6_RepeatedRunIdempotent ==
    (Finished /\ run >= 2 /\ prev.handed.target = Target
       /\ ValidWritable(Target)
       /\ ~EngineFailed(exc) /\ ~EngineFailed(prev.exc)) =>
        /\ prev.exit = 0
        /\ exit_code = 0
        /\ prev.handed.ok /\ handed.ok
        /\ handed.story = prev.handed.story
        /\ handed.story # << >>
        /\ files[Target] = Artifact(handed.story, TRUE)
        /\ files[Target].run = run

C6_Witness ==
    /\ Finished
    /\ run >= 2
    /\ prev.handed.ok
    /\ prev.handed.target = Target
    /\ Target \in DOMAIN files0
    /\ files[Target].run = run

\* C7: the content sequence handed to the build step holds exactly one
\* PageBreak, with a text-bearing element before it and one after it, so a
\* produced artifact has at least 2 pages.
C7_OnePageBreak ==
    /\ buildCalls > 0 =>
         LET s == handed.story
             breaks == { i \in 1 .. Len(s) : IsPageBreak(s[i]) }
         IN  /\ Cardinality(breaks) = 1
             /\ \A b \in breaks :
                  /\ \E i \in 1 .. (b - 1) : s[i].kind = "Paragraph"
                  /\ \E i \in (b + 1) .. Len(s) : s[i].kind = "Paragraph"
    /\ \A f \in DOMAIN files : files[f].complete => files[f].minPages >= 2

C7_Witness ==
    /\ buildCalls > 0
    /\ handed.ok
    /\ pc = "report"
    /\ files[handed.target].minPages = 2

\* C8 as stated: each bulleted section is a Heading, an intro Body paragraph,
\* then a List Item and a small Spacer per entry, then a larger Spacer, and
\* nothing else.
C8_AsStated ==
    buildCalls > 0 =>
        /\ BulletedSection(Section(handed.story, "Features of pdf2md"), 2, features)
        /\ BulletedSection(Section(handed.story, "Quality Standards"), 2, quality_items)

\* C8 amended: each of the two bulleted sections (five feature strings, six
\* quality-standard strings) is a Heading, an intro Body paragraph, one Spacer,
\* then a List Item (bullet glyph first, Body style) and a small Spacer per
\* entry in list order, then one larger Spacer.
C8_BulletedSections ==
    buildCalls > 0 =>
        LET f == Section(handed.story, "Features of pdf2md")
            q == Section(handed.story, "Quality Standards")
        IN  /\ Len(features) = 5
            /\ Len(quality_items) = 6
            /\ BulletedSection(f, 3, features)
            /\ BulletedSection(q, 3, quality_items)
            /\ IsSpacer(f[3])
            /\ IsSpacer(q[3])

C8_Witness ==
    /\ buildCalls > 0
    /\ pc = "success"
    /\ Len(Section(handed.story, "Quality Standards")) = 16

\* C9: the content sequence is built in the order Title, metadata paragraph,
\* Introduction, Features, Use Cases, the PageBreak, Technical Details,
\* Quality Standards, Conclusion: six Headings in that order, the PageBreak
\* between Use Cases and Technical Details, and the second Conclusion Body
\* paragraph last, with no Spacer after it.
C9_FixedOrder ==
    buildCalls > 0 =>
        LET s == handed.story
            n == Len(s)
        IN  /\ IsTitle(s[1])
            /\ \A i \in 2 .. n : ~IsTitle(s[i])
            /\ IsBody(s[3])
            /\ HeadingAt(s, "Introduction") > 3
            /\ HeadingTitles(s) =
                 << "Introduction", "Features of pdf2md", "Use Cases",
                    "Technical Details", "Quality Standards", "Conclusion" >>
            /\ \E b \in 1 .. n :
                 /\ IsPageBreak(s[b])
                 /\ HeadingAt(s, "Use Cases") < b
                 /\ b + 1 = HeadingAt(s, "Technical Details")
            /\ IsBody(s[n])
            /\ IsSpacer(s[n - 1])
            /\ IsBody(s[n - 2])
            /\ HeadingAt(s, "Conclusion") = n - 3

C9_Witness ==
    /\ buildCalls > 0
    /\ pc = "except"
    /\ Len(Headings(handed.story)) = 6
    /\ IsBody(handed.story[Len(handed.story)])

C10_State ==
    /\ buildCalls <= 1
    /\ buildCalls = 0 => handed = NoHanded
    /\ buildCalls = 1 =>
         /\ handed.story = AllElems
         /\ pc \in { "report", "success", "except", "exited" }
         /\ ~handed.ok => (pc \in { "except", "exited" } /\ exc # NoExc)

C10_Step ==
    (buildCalls >= 1 /\ run' = run) =>
        /\ story' = story
        /\ handed' = handed
        /\ buildCalls' = buildCalls
        /\ pc' \in { "success", "exited" }

\* C10: in one run the build step is called at most once, only when every
\* content element has been appended, and once it has been called no step
\* changes the sequence; after a failed build it is not called again and no
\* generation step runs before the process exits.
C10_SingleBuild == [](C10_State) /\ [][C10_Step]_vars

C10_Witness ==
    /\ buildCalls = 1
    /\ ~handed.ok
    /\ pc = "exited"
    /\ exit_code = 1
    /\ exc.kind = "ValueError"

====
